---- MODULE Spec2Model ----
(***************************************************************************)
(* Model of the CDI sampling-and-persistence loop of                       *)
(*   src/analise.py  (extrair_taxa_cdi, salvar_csv, ler_dados_csv,         *)
(*                    coletar_multiplas_vezes)                             *)
(*   src/extracao.py (extrair_taxa_cdi, salvar_csv, main)                  *)
(*                                                                         *)
(* Rates are integers in units of 1e-4 percent (13.25 is 132500); the      *)
(* value random.uniform returns is in units of 1e-5 before round(.., 4).   *)
(* The wall clock is a tick counter read by datetime.now().                *)
(* The store is a sequence of lines; a line is the header written by       *)
(* writer.writeheader() or a row written by writer.writerow().             *)
(***************************************************************************)
EXTENDS Integers, Sequences, FiniteSets

(* ------------------------------ bounds -------------------------------- *)

\* largest n_coletas of a collector that runs alone
MaxColetas == 3
\* largest total number of attempts of two processes that run concurrently
MaxConcorrentes == 2
Procs == 1..2

(* ------------------------- Python exceptions --------------------------- *)

Nenhuma == "nenhuma"

\* The base classes of each exception class the code can meet (the class
\* itself included).  requests.exceptions.RequestException derives from
\* IOError; since requests 2.27 response.json() raises
\* requests.exceptions.JSONDecodeError, which derives from both
\* RequestException (via InvalidJSONError) and json.JSONDecodeError; older
\* releases raise json.JSONDecodeError itself.
Bases(exc) ==
  CASE exc = "Timeout" ->
         {"Timeout", "RequestException", "OSError", "Exception"}
    [] exc = "ConnectionError" ->
         {"ConnectionError", "RequestException", "OSError", "Exception"}
    [] exc = "HTTPError" ->
         {"HTTPError", "RequestException", "OSError", "Exception"}
    [] exc = "RequestsJSONDecodeError" ->
         {"RequestsJSONDecodeError", "RequestException", "OSError",
          "JSONDecodeError", "ValueError", "Exception"}
    [] exc = "JSONDecodeError" -> {"JSONDecodeError", "ValueError", "Exception"}
    [] exc = "ValueError" -> {"ValueError", "Exception"}
    [] exc = "KeyError" -> {"KeyError", "Exception"}
    [] exc = "TypeError" -> {"TypeError", "Exception"}
    [] exc = "OSError" -> {"OSError", "Exception"}
    [] exc = "FileNotFoundError" -> {"FileNotFoundError", "OSError", "Exception"}
    [] exc = "EmptyDataError" -> {"EmptyDataError", "ValueError", "Exception"}
    [] OTHER -> {}

IsInstance(exc, classe) == classe \in Bases(exc)

(* --------------------------- remote source ----------------------------- *)

\* JSON values of the 'valor' field: a string or null
ValorStr(s) == [tipo |-> "str", s |-> s]
ValorNull == [tipo |-> "null", s |-> ""]

\* an element of the JSON array: an object that has or lacks the key 'valor'
Registro(v) == [tem_valor |-> TRUE, valor |-> v]
SemValor == [tem_valor |-> FALSE, valor |-> ValorNull]

\* decoded bodies: a JSON array of objects, or a JSON object
Lista(itens) == [tipo |-> "lista", itens |-> itens]
Objeto == [tipo |-> "objeto", itens |-> <<>>]

Corpos ==
  { Lista(<<>>),
    Lista(<<Registro(ValorStr("13.25"))>>),
    Lista(<<Registro(ValorStr("abc")), Registro(ValorStr("13.25"))>>),
    Lista(<<SemValor>>),
    Lista(<<Registro(ValorStr("abc"))>>),
    Lista(<<Registro(ValorNull)>>),
    Objeto }

\* what requests.get(url, timeout=10) meets: a transport failure, or a
\* response with a status and a body that decodes to JSON or does not;
\* json_exc is the class response.json() raises on an undecodable body
Respostas ==
  { [falha |-> f, status |-> 0, decodifica |-> FALSE, corpo |-> Objeto,
     json_exc |-> Nenhuma] : f \in {"Timeout", "ConnectionError"} }
  \cup
  { [falha |-> Nenhuma, status |-> 500, decodifica |-> FALSE, corpo |-> Objeto,
     json_exc |-> Nenhuma] }
  \cup
  { [falha |-> Nenhuma, status |-> 200, decodifica |-> FALSE, corpo |-> Objeto,
     json_exc |-> j] : j \in {"JSONDecodeError", "RequestsJSONDecodeError"} }
  \cup
  { [falha |-> Nenhuma, status |-> 200, decodifica |-> TRUE, corpo |-> c,
     json_exc |-> Nenhuma] : c \in Corpos }

(* ------------------------------ Sampler -------------------------------- *)

SemObs == <<0, 0, 0>>

Retorna(v, msgs) == [exc |-> Nenhuma, valor |-> v, saida |-> msgs]
Levanta(e, msgs) == [exc |-> e, valor |-> SemObs, saida |-> msgs]

Msg(m, k, e) == [msg |-> m, i |-> k, exc |-> e]

\* float(x) of a JSON value
Float(v) ==
  IF v.tipo = "null" THEN Levanta("TypeError", <<>>)
  ELSE IF v.s = "13.25" THEN Retorna(132500, <<>>)
  ELSE Levanta("ValueError", <<>>)

\* agora.strftime('%Y-%m-%d') and agora.strftime('%H:%M:%S')
Data(agora) == agora \div 86400
Hora(agora) == agora % 86400

\* the body of the try block of extrair_taxa_cdi
requisitar(r, agora) ==
  IF r.falha # Nenhuma THEN Levanta(r.falha, <<>>)
  ELSE IF r.status >= 400 THEN Levanta("HTTPError", <<>>)
  ELSE IF ~r.decodifica THEN Levanta(r.json_exc, <<>>)
  ELSE LET dados == r.corpo IN
    IF dados.tipo = "objeto" THEN Levanta("KeyError", <<>>)
    ELSE IF Len(dados.itens) > 0 THEN
      LET ultimo_registro == dados.itens[Len(dados.itens)] IN
      IF ~ultimo_registro.tem_valor THEN Levanta("KeyError", <<>>)
      ELSE LET taxa == Float(ultimo_registro.valor) IN
        IF taxa.exc # Nenhuma THEN taxa
        ELSE Retorna(<<Data(agora), Hora(agora), taxa.valor>>, <<>>)
    ELSE Levanta("ValueError", <<>>)

UniformeMin == 1250000
UniformeMax == 1380000

\* random.random() at the two ends of its range
Sorteios == {0, 1}

\* random.uniform(12.5, 13.8) = a + (b - a) * random.random()
Uniforme(u) == UniformeMin + (UniformeMax - UniformeMin) * u

\* round(x, 4)
Round4(x) == (x + 5) \div 10

\* the band of the comment, "entre 12% e 14%"
simulada_12_14(agora, u) ==
  <<agora \div 86400, agora % 86400, Round4(1200000 + 200000 * u)>>

\* the synthesized observation of analise.py
simulada(agora, u) == <<Data(agora), Hora(agora), Round4(Uniforme(u))>>

\* a first clause that takes every exception
clausula_rede_tudo(e) == IsInstance(e, "Exception")

\* which except clause of analise.py's extrair_taxa_cdi takes the exception
clausula_rede(e) == IsInstance(e, "RequestException")
clausula_dados(e) ==
  IsInstance(e, "JSONDecodeError") \/ IsInstance(e, "KeyError")
    \/ IsInstance(e, "ValueError")

\* extrair_taxa_cdi of analise.py
extrair_taxa_cdi(r, agora, u) ==
  LET t == requisitar(r, agora) IN
  IF t.exc = Nenhuma THEN t
  ELSE IF clausula_rede(t.exc)
    THEN Retorna(simulada(agora, u), <<Msg("aviso_simulado", 0, Nenhuma)>>)
  ELSE IF clausula_dados(t.exc)
    THEN Levanta(t.exc, <<Msg("erro_processar", 0, t.exc)>>)
  ELSE t

\* extrair_taxa_cdi of extracao.py
extracao_extrair_taxa_cdi(r, agora) ==
  LET t == requisitar(r, agora) IN
  IF t.exc = Nenhuma THEN t
  ELSE IF IsInstance(t.exc, "RequestException")
    THEN Levanta(t.exc, <<Msg("erro_requisicao", 0, t.exc)>>)
  ELSE IF clausula_dados(t.exc)
    THEN Levanta(t.exc, <<Msg("erro_processar", 0, t.exc)>>)
  ELSE t

(* ---------------------------- Append Store ----------------------------- *)

\* campos = ['data', 'hora', 'taxa']
campos == <<"data", "hora", "taxa">>

\* a line of the file: the column names of a header, or the values of a row
Cabecalho == [cab |-> TRUE, nomes |-> campos, valores |-> <<>>]
Linha(obs) == [cab |-> FALSE, nomes |-> <<>>, valores |-> obs]

Ausente == [existe |-> FALSE, linhas |-> <<>>]

\* the existence check that never finds the file
exists_nunca(arq) == FALSE

\* os.path.exists(arquivo)
exists(arq) == arq.existe

\* open(arquivo, 'w', ...)
abrir_w(arq) == [existe |-> TRUE, linhas |-> <<>>]

\* open(arquivo, 'a', ...): creates the file when absent, keeps its content
abrir(arq) == [existe |-> TRUE, linhas |-> arq.linhas]

\* the header written by every call
escreve_cabecalho_sempre(existia) == TRUE

\* "if not arquivo_existe: writer.writeheader()"
escreve_cabecalho(existia) == ~existia

\* the row left out when the header is written
linhas_escritas_ou(existia, obs) ==
  IF ~existia THEN <<[cab |-> TRUE, nomes |-> <<"data", "hora", "taxa">>, valores |-> <<>>]>>
  ELSE <<[cab |-> FALSE, nomes |-> <<>>, valores |-> obs]>>

\* the lines the with block writes: the header when the file was found
\* absent, then one row
linhas_escritas(existia, obs) ==
  (IF escreve_cabecalho(existia) THEN <<Cabecalho>> ELSE <<>>) \o <<Linha(obs)>>

\* the lines that reached the file when the write fails at `falha`:
\* "cabecalho" before any line, "linha" after the header and before the row
linhas_parciais(existia, obs, falha) ==
  IF falha = "linha" /\ escreve_cabecalho(existia) THEN <<Cabecalho>> ELSE <<>>

\* the handler without its raise
salvar_csv_except_engole(e) == Retorna(SemObs, <<Msg("erro_salvar", 0, e)>>)

\* "except IOError as e: print(...); raise"
salvar_csv_except(e) ==
  IF IsInstance(e, "OSError")
    THEN Levanta(e, <<Msg("erro_salvar", 0, e)>>)
    ELSE Levanta(e, <<>>)

Range(f) == {f[x] : x \in DOMAIN f}

(* ------------------------------ Reader --------------------------------- *)

\* ler_dados_csv: pd.read_csv takes the first line as the column names
ler_dados_csv(arq) ==
  IF ~exists(arq) THEN Levanta("FileNotFoundError", <<Msg("erro_ler", 0, "FileNotFoundError")>>)
  ELSE IF Len(arq.linhas) = 0
    THEN Levanta("EmptyDataError", <<Msg("erro_ler", 0, "EmptyDataError")>>)
  ELSE IF ~arq.linhas[1].cab \/ {"hora", "taxa"} \ Range(arq.linhas[1].nomes) # {}
    THEN Levanta("ValueError", <<Msg("erro_ler", 0, "ValueError")>>)
  ELSE Retorna([k \in 1..(Len(arq.linhas) - 1) |-> arq.linhas[k + 1].valores], <<>>)

(* ------------------------------- state --------------------------------- *)

VARIABLES
  arquivo,         \* taxa-cdi.csv: [existe, linhas]
  arquivo0,        \* taxa-cdi.csv as it was when the run started
  relogio,         \* the wall clock, in ticks
  prog,            \* prog[p]: the script process p runs
  n_coletas,       \* n_coletas[p]: the argument of coletar_multiplas_vezes
  pc,              \* pc[p]: where process p is
  i,               \* i[p]: the loop variable of coletar_multiplas_vezes
  amostra,         \* amostra[p]: the locals data, hora, taxa
  arquivo_existe,  \* arquivo_existe[p]: the local of salvar_csv
  saida,           \* saida[p]: the lines process p printed
  tentativas,      \* tentativas[p]: per attempt, what the Sampler met and
                   \*   returned and how the Append Store call ended
  pausas,          \* pausas[p]: the time.sleep(intervalo) calls made
  retorno,         \* retorno[p]: what main() of extracao.py returned
  df               \* the last result of ler_dados_csv

vars == <<arquivo, arquivo0, relogio, prog, n_coletas, pc, i, amostra, arquivo_existe,
          saida, tentativas, pausas, retorno, df>>

\* how the remote source answered, as the spec classifies it
Classe(r) ==
  IF r.falha # Nenhuma \/ r.status >= 400 THEN "rede"
  ELSE IF ~r.decodifica THEN "indecodificavel"
  ELSE IF r.corpo.tipo = "objeto" \/ Len(r.corpo.itens) = 0 THEN "sem_dados"
  ELSE IF ~r.corpo.itens[Len(r.corpo.itens)].tem_valor THEN "sem_valor"
  ELSE IF Float(r.corpo.itens[Len(r.corpo.itens)].valor).exc # Nenhuma
    THEN "nao_numerico"
  ELSE "valido"

\* the runs: one process alone, or two processes on the same store
Sozinhos ==
  { [prog |-> <<"analise", "nenhum">>, n |-> <<k, 0>>] : k \in 1..MaxColetas }
  \cup { [prog |-> <<"extracao", "nenhum">>, n |-> <<1, 0>>] }

Concorrentes ==
  { c \in [prog : {"analise", "extracao"} \X {"analise", "extracao"},
           n : (1..MaxConcorrentes) \X (1..MaxConcorrentes)] :
      /\ c.n[1] + c.n[2] <= MaxConcorrentes
      /\ \A p \in Procs : c.prog[p] = "extracao" => c.n[p] = 1
      \* the two processes are interchangeable: the longer run is process 1
      /\ c.n[1] >= c.n[2]
      /\ c.prog[1] = "extracao" => c.prog[2] = "extracao" }

\* a store left by an earlier run
LinhaAnterior == Linha(<<0, 0, 132500>>)
ArquivoAnterior == [existe |-> TRUE, linhas |-> <<Cabecalho, LinhaAnterior>>]

Inicio(p, programa) ==
  IF programa = "analise" THEN <<Msg("realizando", 0, Nenhuma)>>
  ELSE IF programa = "extracao" THEN <<Msg("iniciando", 0, Nenhuma)>>
  ELSE <<>>

Init ==
  /\ arquivo \in {Ausente, ArquivoAnterior}
  /\ arquivo0 = arquivo
  /\ relogio = 1
  /\ \E c \in Sozinhos \cup Concorrentes :
       /\ prog = [p \in Procs |-> c.prog[p]]
       /\ n_coletas = [p \in Procs |-> c.n[p]]
       /\ pc = [p \in Procs |-> IF c.prog[p] = "nenhum" THEN "fim" ELSE "extrair"]
       /\ saida = [p \in Procs |-> Inicio(p, c.prog[p])]
  /\ i = [p \in Procs |-> 0]
  /\ amostra = [p \in Procs |-> SemObs]
  /\ arquivo_existe = [p \in Procs |-> FALSE]
  /\ tentativas = [p \in Procs |-> <<>>]
  /\ pausas = [p \in Procs |-> 0]
  /\ retorno = [p \in Procs |-> -1]
  /\ df = Levanta("nao_lido", <<>>)

(* ---------------------- the callers' control flow ---------------------- *)

\* a handler for ValueError alone
coletar_captura_value_error(e) == IsInstance(e, "ValueError")

\* "except Exception as e" of coletar_multiplas_vezes and of main
coletar_captura(e) == IsInstance(e, "Exception")
main_captura(e) == IsInstance(e, "Exception")

\* the attempt of process p ended with exception e, after printing msgs
AposExcecao(p, e, msgs) ==
  IF prog[p] = "analise" THEN
    IF coletar_captura(e) THEN
      /\ saida' = [saida EXCEPT ![p] = @ \o msgs \o <<Msg("erro_coleta", i[p] + 1, e)>>]
      /\ i' = [i EXCEPT ![p] = @ + 1]
      /\ pc' = [pc EXCEPT ![p] = IF i[p] + 1 < n_coletas[p] THEN "extrair" ELSE "fim"]
      /\ UNCHANGED retorno
    ELSE
      /\ saida' = [saida EXCEPT ![p] = @ \o msgs]
      /\ pc' = [pc EXCEPT ![p] = "excecao"]
      /\ UNCHANGED <<i, retorno>>
  ELSE
    IF main_captura(e) THEN
      /\ saida' = [saida EXCEPT ![p] = @ \o msgs \o <<Msg("erro_execucao", 0, e)>>]
      /\ retorno' = [retorno EXCEPT ![p] = 1]
      /\ pc' = [pc EXCEPT ![p] = "fim"]
      /\ UNCHANGED i
    ELSE
      /\ saida' = [saida EXCEPT ![p] = @ \o msgs]
      /\ pc' = [pc EXCEPT ![p] = "excecao"]
      /\ UNCHANGED <<i, retorno>>

\* salvar_csv returned to process p, after printing msgs
AposSalvar(p, msgs) ==
  IF prog[p] = "analise" THEN
    /\ saida' = [saida EXCEPT ![p] = @ \o msgs \o <<Msg("concluida", i[p] + 1, Nenhuma)>>]
    /\ IF i[p] < n_coletas[p] - 1
         THEN pc' = [pc EXCEPT ![p] = "sleep"] /\ UNCHANGED i
         ELSE pc' = [pc EXCEPT ![p] = "fim"] /\ i' = [i EXCEPT ![p] = @ + 1]
    /\ UNCHANGED retorno
  ELSE
    /\ saida' = [saida EXCEPT ![p] = @ \o msgs \o <<Msg("extracao_concluida", 0, Nenhuma)>>]
    /\ retorno' = [retorno EXCEPT ![p] = 0]
    /\ pc' = [pc EXCEPT ![p] = "fim"]
    /\ UNCHANGED i

\* salvar_csv ended for process p with result res
FimSalvar(p, res) ==
  IF res.exc = Nenhuma THEN AposSalvar(p, res.saida)
  ELSE AposExcecao(p, res.exc, res.saida)

RegistraIO(p, como) ==
  tentativas' = [tentativas EXCEPT ![p][Len(tentativas[p])].io = como]

(* ------------------------------ actions -------------------------------- *)

\* "data, hora, taxa = extrair_taxa_cdi()"
Extrair(p) ==
  /\ pc[p] = "extrair"
  /\ \E r \in Respostas, u \in Sorteios :
       LET res == IF prog[p] = "analise"
                    THEN extrair_taxa_cdi(r, relogio, u)
                    ELSE extracao_extrair_taxa_cdi(r, relogio) IN
       /\ tentativas' = [tentativas EXCEPT ![p] =
            Append(@, [entrada |-> Classe(r), exc |-> res.exc,
                       obs |-> res.valor, io |-> "nao_chamado"])]
       /\ IF res.exc = Nenhuma
            THEN /\ amostra' = [amostra EXCEPT ![p] = res.valor]
                 /\ saida' = [saida EXCEPT ![p] = @ \o res.saida]
                 /\ pc' = [pc EXCEPT ![p] = "existe"]
                 /\ UNCHANGED <<i, retorno>>
            ELSE /\ AposExcecao(p, res.exc, res.saida)
                 /\ UNCHANGED amostra
  /\ relogio' = relogio + 1
  /\ UNCHANGED <<arquivo, arquivo0, prog, n_coletas, arquivo_existe, pausas, df>>

\* salvar_csv: "arquivo_existe = os.path.exists(arquivo)"
Existe(p) ==
  /\ pc[p] = "existe"
  /\ arquivo_existe' = [arquivo_existe EXCEPT ![p] = exists(arquivo)]
  /\ pc' = [pc EXCEPT ![p] = "abrir"]
  /\ UNCHANGED <<arquivo, arquivo0, relogio, prog, n_coletas, i, amostra, saida,
                 tentativas, pausas, retorno, df>>

\* salvar_csv: "with open(arquivo, 'a', ...)", which succeeds or raises
Abrir(p) ==
  /\ pc[p] = "abrir"
  /\ \E ok \in BOOLEAN :
       IF ok
         THEN /\ arquivo' = abrir(arquivo)
              /\ pc' = [pc EXCEPT ![p] = "escrever"]
              /\ UNCHANGED <<i, saida, retorno, tentativas>>
         ELSE /\ FimSalvar(p, salvar_csv_except("OSError"))
              /\ RegistraIO(p, "OSError")
              /\ UNCHANGED arquivo
  /\ UNCHANGED <<arquivo0, relogio, prog, n_coletas, amostra, arquivo_existe, pausas, df>>

\* salvar_csv: the body of the with block, which succeeds or raises
Escrever(p) ==
  /\ pc[p] = "escrever"
  /\ \E falha \in {Nenhuma, "cabecalho", "linha"} :
       IF falha = Nenhuma
         THEN /\ arquivo' = [arquivo EXCEPT !.linhas =
                   @ \o linhas_escritas(arquivo_existe[p], amostra[p])]
              /\ FimSalvar(p, Retorna(SemObs, <<Msg("dados_salvos", 0, Nenhuma)>>))
              /\ RegistraIO(p, "ok")
         ELSE /\ arquivo' = [arquivo EXCEPT !.linhas =
                   @ \o linhas_parciais(arquivo_existe[p], amostra[p], falha)]
              /\ FimSalvar(p, salvar_csv_except("OSError"))
              /\ RegistraIO(p, "OSError")
  /\ UNCHANGED <<arquivo0, relogio, prog, n_coletas, amostra, arquivo_existe, pausas, df>>

\* coletar_multiplas_vezes: "time.sleep(intervalo)", then the next iteration
Dormir(p) ==
  /\ pc[p] = "sleep"
  /\ pausas' = [pausas EXCEPT ![p] = @ + 1]
  /\ i' = [i EXCEPT ![p] = @ + 1]
  /\ pc' = [pc EXCEPT ![p] = "extrair"]
  /\ UNCHANGED <<arquivo, arquivo0, relogio, prog, n_coletas, amostra, arquivo_existe,
                 saida, tentativas, retorno, df>>

\* "df = ler_dados_csv()": main of analise.py calls the reader when
\* coletar_multiplas_vezes has returned; visualizacao.py is run afterwards
LerDadosCsv ==
  /\ \A p \in Procs : pc[p] \in {"fim", "excecao"}
  /\ df' = ler_dados_csv(arquivo)
  /\ UNCHANGED <<arquivo, arquivo0, relogio, prog, n_coletas, pc, i, amostra,
                 arquivo_existe, saida, tentativas, pausas, retorno>>

Passo(p) == Extrair(p) \/ Existe(p) \/ Abrir(p) \/ Escrever(p) \/ Dormir(p)

Next == (\E p \in Procs : Passo(p)) \/ LerDadosCsv

Spec == Init /\ [][Next]_vars

\* every process that can take a step eventually takes one
FairSpec == Spec /\ \A p \in Procs : WF_vars(Passo(p))

(* ----------------------------- properties ----------------------------- *)

Sozinho == prog[2] = "nenhum"

Analises == {p \in Procs : prog[p] = "analise"}

IsPrefix(a, b) == Len(a) <= Len(b) /\ SubSeq(b, 1, Len(a)) = a

NumCabecalhos(linhas) == Cardinality({k \in DOMAIN linhas : linhas[k].cab})

LinhasDeDados(linhas) == SelectSeq(linhas, LAMBDA l : ~l.cab)

\* the attempts of p whose salvar_csv call returned, failed, or never began
Gravadas(p) == SelectSeq(tentativas[p], LAMBDA t : t.io = "ok")
NumFalhasIO(p) == Cardinality({k \in DOMAIN tentativas[p] : tentativas[p][k].io = "OSError"})

\* the lines of saida[p] with message m
NumMsgs(p, m) == Cardinality({k \in DOMAIN saida[p] : saida[p][k].msg = m})
TemMsg(p, m, k) == \E j \in DOMAIN saida[p] : saida[p][j].msg = m /\ saida[p][j].i = k

\* attempt k of collector p is over
Terminada(p, k) ==
  k < Len(tentativas[p]) \/ pc[p] \in {"sleep", "fim", "excecao"}
    \/ (pc[p] = "extrair" /\ k <= Len(tentativas[p]))

\* C1: one writer, a store absent at the start, no I/O failure so far: after
\* N >= 1 salvar_csv calls have returned the file is one header line followed
\* by exactly N data rows.
C1_UmCabecalhoNLinhas ==
  \A p \in Procs :
    (Sozinho /\ arquivo0 = Ausente /\ NumFalhasIO(p) = 0 /\ Len(Gravadas(p)) >= 1)
      => /\ Len(arquivo.linhas) = Len(Gravadas(p)) + 1
         /\ arquivo.linhas[1].cab
         /\ \A k \in 2..Len(arquivo.linhas) : ~arquivo.linhas[k].cab

C1_Witness ==
  /\ Sozinho /\ arquivo0 = Ausente /\ NumFalhasIO(1) = 0
  /\ Len(Gravadas(1)) = 3
  /\ Len(arquivo.linhas) = 4

\* C3: a collector that runs alone: the data rows the store gained are the
\* observations of the attempts in which both the Sampler and salvar_csv
\* succeeded, in attempt order; when it has returned, n_coletas attempts were
\* made, each failed one is logged as failed and each other one as completed.
C3_LinhasPorTentativa ==
  \A p \in Analises :
    Sozinho =>
      /\ LinhasDeDados(arquivo.linhas) =
           LinhasDeDados(arquivo0.linhas)
             \o [k \in 1..Len(Gravadas(p)) |-> Linha(Gravadas(p)[k].obs)]
      /\ pc[p] = "fim" =>
           /\ Len(tentativas[p]) = n_coletas[p]
           /\ NumMsgs(p, "concluida") = Len(Gravadas(p))
           /\ NumMsgs(p, "erro_coleta") = n_coletas[p] - Len(Gravadas(p))

\* Scenario E: three attempts, the second fails with a data-integrity error
C3_Witness ==
  /\ Sozinho /\ prog[1] = "analise" /\ n_coletas[1] = 3 /\ pc[1] = "fim"
  /\ arquivo0 = Ausente
  /\ Len(tentativas[1]) = 3
  /\ tentativas[1][2].entrada = "sem_dados" /\ tentativas[1][2].exc = "ValueError"
  /\ tentativas[1][1].io = "ok" /\ tentativas[1][3].io = "ok"
  /\ Len(LinhasDeDados(arquivo.linhas)) = 2
  /\ NumMsgs(1, "erro_coleta") = 1

\* C10: with one writer the file never holds two header rows; with two
\* writers on an absent store both can find it absent and both write a header
\* (the witness).
C10_UmEscritorUmCabecalho ==
  Sozinho => NumCabecalhos(arquivo.linhas) <= 1

C10_Witness ==
  /\ ~Sozinho /\ arquivo0 = Ausente
  /\ ~arquivo_existe[1] /\ ~arquivo_existe[2]
  /\ NumCabecalhos(arquivo.linhas) = 2

\* C2: every collector ends after exactly n_coletas Sampler calls, whatever
\* attempts fail in the Sampler or in salvar_csv: it never makes more than
\* n_coletas calls, no exception escapes it, it has made exactly n_coletas
\* calls when it returns, and it does return.
C2_TerminaAposNColetas ==
  /\ [](\A p \in Analises :
          /\ pc[p] # "excecao"
          /\ Len(tentativas[p]) <= n_coletas[p]
          /\ Len(tentativas[p]) = IF pc[p] \in {"extrair", "fim"} THEN i[p] ELSE i[p] + 1
          /\ pc[p] = "fim" => Len(tentativas[p]) = n_coletas[p])
  /\ <>(\A p \in Analises : pc[p] = "fim")

C2_Witness ==
  /\ prog[1] = "analise" /\ pc[1] = "fim" /\ n_coletas[1] = 3
  /\ Len(tentativas[1]) = 3
  /\ tentativas[1][1].exc # Nenhuma
  /\ tentativas[1][2].io = "OSError"
  /\ tentativas[1][3].exc # Nenhuma

\* C4: in analise.py an attempt whose fetch fails at the network layer
\* returns, without raising, an observation stamped with the clock whose
\* rate is in [12.5, 13.8]; the collector then calls salvar_csv for that
\* attempt, and the row is in the store when that call succeeds.
C4_FalhaDeRedeSimulada ==
  \A p \in Analises : \A k \in DOMAIN tentativas[p] :
    LET t == tentativas[p][k] IN
    t.entrada = "rede" =>
      /\ t.exc = Nenhuma
      /\ 125000 <= t.obs[3] /\ t.obs[3] <= 138000
      /\ t.obs[1] * 86400 + t.obs[2] >= 1
      /\ Terminada(p, k) => t.io \in {"ok", "OSError"}
      /\ t.io = "ok" => \E j \in DOMAIN arquivo.linhas :
                        ~arquivo.linhas[j].cab /\ arquivo.linhas[j].valores = t.obs

C4_Witness ==
  /\ prog[1] = "analise" /\ Len(tentativas[1]) >= 1
  /\ tentativas[1][1].entrada = "rede"
  /\ tentativas[1][1].io = "ok"
  /\ pc[1] = "fim"

\* C5: an attempt whose payload has no data points, or whose last element
\* lacks 'valor', or whose 'valor' is not numeric, raises and yields no
\* observation; salvar_csv is not called for it; the collector logs it as
\* failed and goes on; main of extracao.py returns 1, and leaves the store
\* as it was when it is the only writer.
DadosInvalidos == {"sem_dados", "sem_valor", "nao_numerico"}

C5_ErroDeDadosLevantado ==
  \A p \in Procs : \A k \in DOMAIN tentativas[p] :
    LET t == tentativas[p][k] IN
    t.entrada \in DadosInvalidos =>
      /\ t.exc # Nenhuma
      /\ t.obs = SemObs
      /\ t.io = "nao_chamado"
      /\ pc[p] # "excecao"
      /\ prog[p] = "analise" =>
           /\ TemMsg(p, "erro_coleta", k) /\ ~TemMsg(p, "concluida", k)
           /\ Len(tentativas[p]) = k => pc[p] = (IF k < n_coletas[p] THEN "extrair" ELSE "fim")
      /\ prog[p] = "extracao" =>
           /\ pc[p] = "fim" /\ retorno[p] = 1
           /\ Sozinho => arquivo = arquivo0

C5_Witness ==
  /\ prog[1] = "analise" /\ prog[2] = "extracao"
  /\ Len(tentativas[1]) = 1 /\ tentativas[1][1].entrada = "nao_numerico"
  /\ Len(tentativas[2]) = 1 /\ tentativas[2][1].entrada = "sem_valor"
  /\ retorno[2] = 1

\* C6: in analise.py a success status with an undecodable body is raised to
\* the caller and never replaced by a synthesized observation.
C6_IndecodificavelLevantado ==
  \A p \in Analises : \A k \in DOMAIN tentativas[p] :
    tentativas[p][k].entrada = "indecodificavel" =>
      /\ tentativas[p][k].exc # Nenhuma
      /\ tentativas[p][k].obs = SemObs

\* C7: an I/O failure in salvar_csv reaches the caller: main of extracao.py
\* returns 1 and does not report success; the collector reports that attempt
\* as failed and not as completed, and still makes all n_coletas attempts.
C7_ErroDeEscritaLevantado ==
  \A p \in Procs : \A k \in DOMAIN tentativas[p] :
    tentativas[p][k].io = "OSError" =>
      /\ NumMsgs(p, "erro_salvar") = NumFalhasIO(p)
      /\ pc[p] # "excecao"
      /\ prog[p] = "extracao" =>
           /\ pc[p] = "fim" /\ retorno[p] = 1
           /\ NumMsgs(p, "extracao_concluida") = 0
      /\ prog[p] = "analise" =>
           /\ TemMsg(p, "erro_coleta", k) /\ ~TemMsg(p, "concluida", k)
           /\ Len(tentativas[p]) = k => pc[p] = (IF k < n_coletas[p] THEN "extrair" ELSE "fim")
           /\ pc[p] = "fim" => Len(tentativas[p]) = n_coletas[p]

C7_Witness ==
  /\ prog[1] = "analise" /\ prog[2] = "extracao"
  /\ pc[1] = "fim" /\ pc[2] = "fim"
  /\ tentativas[1][1].io = "OSError"
  /\ Len(tentativas[2]) = 1 /\ tentativas[2][1].io = "OSError"

\* C8: every step leaves the file's earlier content as a prefix of its new
\* content and never removes the file; the Sampler and the reader leave the
\* file as it is.
C8_SomenteAcrescenta ==
  [][/\ IsPrefix(arquivo.linhas, arquivo'.linhas)
     /\ arquivo.existe => arquivo'.existe
     /\ ((\E p \in Procs : Extrair(p)) \/ LerDadosCsv) => arquivo' = arquivo]_vars

C8_Witness ==
  /\ arquivo0 = ArquivoAnterior
  /\ Len(arquivo.linhas) = 4
  /\ NumFalhasIO(1) >= 1
  /\ df.exc = Nenhuma /\ Len(df.valor) = 3

\* C9: a collector that has returned has paused n_coletas - 1 times, once
\* between every two consecutive attempts, whether or not they failed.
C9_PausaEntreTentativas ==
  \A p \in Analises :
    /\ pc[p] = "fim" => pausas[p] = n_coletas[p] - 1
    /\ pc[p] = "extrair" => pausas[p] = i[p]

====
